---- MODULE Spec2Model ----
(***************************************************************************)
(* State-machine model of the plugin sandbox code src/src/figma/code.ts:   *)
(* the generate-design flow (generateDesign, callGemini), the blueprint    *)
(* renderer (renderBlueprint, placeNodes, createTextNode, createBlockNode),*)
(* the font cache (ensureFont) and the colour codec (hexToRgb).            *)
(*                                                                         *)
(* Conventions.                                                            *)
(*  - An optional JSON field is a sequence of length <= 1: <<>> is an      *)
(*    absent (undefined / null) field and <<v>> a present one.             *)
(*  - A colour string is the sequence of its characters.                   *)
(*  - An RGB channel c/255 is kept as its numerator c.                     *)
(*  - Every async function activation is a record on the request's call    *)
(*    stack; the top of the stack is the last element.                     *)
(*  - The host runs the plugin on one thread: a continuation chain runs    *)
(*    until it suspends on a host operation (storage read, network fetch,  *)
(*    font load); host completions and new UI messages are delivered only  *)
(*    while no chain is running.                                           *)
(***************************************************************************)
EXTENDS Integers, Sequences, FiniteSets, TLC

----------------------------------------------------------------------------
(* Bounds of the model *)

\* number of generate-design messages the UI sends in one plugin session
MaxReq == 2
\* length, in tokens, of the reply texts handed to extractJson
MaxTextLen == 5

Reqs == 1..MaxReq

----------------------------------------------------------------------------
(* Program constants *)

DEFAULT_FRAME_WIDTH == 1440
DEFAULT_FRAME_HEIGHT == 1024
\* gap between successive frames, renderBlueprint
FRAME_GAP == 120

----------------------------------------------------------------------------
(* JavaScript value semantics used by the code *)

Absent == <<>>
Some(v) == <<v>>

\* a ?? d
Coalesce(a, d) == IF a = <<>> THEN d ELSE a[1]

\* truthiness of an optional string (undefined, null and '' are falsy)
TruthyStr(a) == a # <<>> /\ a[1] # ""
\* truthiness of an optional string kept as a character sequence
TruthyChars(a) == a # <<>> /\ a[1] # <<>>
\* truthiness of an optional number (undefined, null and 0 are falsy)
TruthyNum(a) == a # <<>> /\ a[1] # 0
\* truthiness of an optional array's length: a?.length
TruthyLen(a) == a # <<>> /\ Len(a[1]) > 0

\* a || d
OrStr(a, d) == IF TruthyStr(a) THEN a[1] ELSE d
OrChars(a, d) == IF TruthyChars(a) THEN a[1] ELSE d
OrNum(a, d) == IF TruthyNum(a) THEN a[1] ELSE d

----------------------------------------------------------------------------
(* Colour codec *)

HexDigits == <<"0","1","2","3","4","5","6","7","8","9","a","b","c","d","e","f">>

IsHexDigit(c) == \E i \in 1..16 : HexDigits[i] = c
HexVal(c) == (CHOOSE i \in 1..16 : HexDigits[i] = c) - 1

\* hex.replace('#', ''): the first '#' is removed
RECURSIVE RemoveFirstHash(_)
RemoveFirstHash(s) ==
    IF s = <<>> THEN <<>>
    ELSE IF Head(s) = "#" THEN Tail(s)
    ELSE <<Head(s)>> \o RemoveFirstHash(Tail(s))

RECURSIVE TrimLeft(_)
TrimLeft(s) == IF s # <<>> /\ Head(s) = " " THEN TrimLeft(Tail(s)) ELSE s
RECURSIVE TrimRight(_)
TrimRight(s) ==
    IF s # <<>> /\ s[Len(s)] = " " THEN TrimRight(SubSeq(s, 1, Len(s) - 1)) ELSE s
\* String.prototype.trim
TrimChars(s) == TrimRight(TrimLeft(s))

\* parseInt(s, 16): the value of the longest prefix of hex digits; NaN (which the
\* bitwise operators read as 0) when that prefix is empty. Only the low 24 bits
\* are kept: they are all that lines 370-372 read of the value.
RECURSIVE ParseHexFrom(_, _)
ParseHexFrom(s, acc) ==
    IF s = <<>> \/ ~IsHexDigit(Head(s)) THEN acc
    ELSE ParseHexFrom(Tail(s), (acc * 16 + HexVal(Head(s))) % 16777216)
ParseInt16(s) == ParseHexFrom(s, 0)

\* String.prototype.repeat(2)
Repeat2(s) == s \o s

\* (v >> k) & 255
Channel(v, k) == (v \div (2 ^ k)) % 256

hexToRgb(hex) ==
    LET normalized == TrimChars(RemoveFirstHash(hex))
        bigint == ParseInt16(IF Len(normalized) = 3 THEN Repeat2(normalized)
                                                    ELSE normalized)
    IN  [r |-> Channel(bigint, 16), g |-> Channel(bigint, 8), b |-> Channel(bigint, 0)]

\* colour literals of the code
HEX_FRAME_BG == <<"#","0","b","0","d","1","1">>
HEX_TEXT     == <<"#","e","9","e","d","f","5">>
HEX_HEADING  == <<"#","e","5","e","7","e","b">>
HEX_FILL     == <<"#","1","1","1","4","1","b">>
HEX_STROKE   == <<"#","1","f","2","6","3","3">>
HEX_BODY     == <<"#","b","7","c","0","d","1">>

SolidPaint(hex) == <<[type |-> "SOLID", color |-> hexToRgb(hex)]>>

----------------------------------------------------------------------------
(* Blueprint descriptors: the shapes the remote service may reply with *)

NodeBase ==
    [type |-> <<>>, title |-> <<>>, content |-> <<>>, x |-> <<>>, y |-> <<>>,
     width |-> <<>>, height |-> <<>>, fontSize |-> <<>>, fontWeight |-> <<>>,
     color |-> <<>>, fill |-> <<>>, stroke |-> <<>>, cornerRadius |-> <<>>,
     spacing |-> <<>>, nodes |-> <<>>]

FrameBase ==
    [name |-> <<>>, description |-> <<>>, width |-> <<>>, height |-> <<>>,
     background |-> <<>>, nodes |-> <<>>]

Kind(k) == [NodeBase EXCEPT !.type = Some(k)]

\* no frames at all: an empty array, and the key missing
BpEmpty == [frames |-> Some(<<>>)]
BpNoFrames == [frames |-> Absent]

\* five siblings without coordinates, of known, unknown and missing kind
BpGrid ==
    [frames |-> Some(<<
        [FrameBase EXCEPT !.name = Some("Grid"), !.nodes = Some(<<
            Kind("text"),
            Kind("card"),
            [Kind("text") EXCEPT !.fontWeight = Some("bold")],
            Kind("chart"),
            NodeBase >>)] >>)]

\* the end-to-end fixture: a panel titled "Hero" with two nested text nodes
BpHero ==
    [frames |-> Some(<<
        [FrameBase EXCEPT !.name = Some("Landing"), !.description = Some("Goal"),
                          !.width = Some(1440), !.height = Some(1024),
                          !.background = Some(HEX_FRAME_BG),
                          !.nodes = Some(<<
            [Kind("panel") EXCEPT !.title = Some("Hero"), !.nodes = Some(<<
                [Kind("text") EXCEPT !.content = Some("a")],
                [Kind("text") EXCEPT !.content = Some("b"),
                                     !.fontWeight = Some("semi-bold")] >>)] >>)] >>)]

\* containers nested three deep, every coordinate omitted
BpDeep ==
    [frames |-> Some(<<
        [FrameBase EXCEPT !.nodes = Some(<<
            [Kind("panel") EXCEPT !.content = Some("only content"), !.nodes = Some(<<
                [Kind("card") EXCEPT !.title = Some("Inner"), !.content = Some("c"),
                                     !.nodes = Some(<<
                    Kind("text"),
                    [Kind("callout") EXCEPT !.nodes = Some(<<
                        [Kind("text") EXCEPT !.fontWeight = Some("bold")] >>)] >>)] >>)]
            >>)] >>)]

\* three frames: the first with explicit sizes, coordinates (one at a time)
\* and styling, the second with every optional field absent, the third with a
\* name and a height
BpTwo ==
    [frames |-> Some(<<
        [FrameBase EXCEPT !.name = Some("Explicit"), !.width = Some(800),
                          !.height = Some(600),
                          !.background = Some(<<"#","f","0","0">>),
                          !.nodes = Some(<<
            [Kind("text") EXCEPT !.x = Some(0), !.title = Some("T"),
                                 !.content = Some("body"), !.fontSize = Some(20),
                                 !.fontWeight = Some("regular"),
                                 !.width = Some(300), !.height = Some(50)],
            [Kind("list") EXCEPT !.y = Some(500), !.width = Some(200),
                                 !.height = Some(100), !.cornerRadius = Some(0),
                                 !.spacing = Some(4), !.stroke = Some(<<"a","b","c">>),
                                 !.fill = Some(<<"#","2","2","2","2","2","2">>),
                                 !.nodes = Some(<<>>)],
            [Kind("callout") EXCEPT !.x = Some(7), !.y = Some(9),
                                    !.content = Some("note")] >>)],
        FrameBase,
        [FrameBase EXCEPT !.name = Some("Last"), !.height = Some(400)] >>)]

\* the replies of a session in which one flow runs at a time
Blueprints == {BpEmpty, BpNoFrames, BpGrid, BpHero, BpDeep, BpTwo}
\* the replies of a session whose flows overlap
OverlapBlueprints == {BpEmpty, BpHero, BpTwo}

----------------------------------------------------------------------------
(* Inputs of a session *)

\* message.prompt
Prompts == {"", "landing page"}
\* message.apiKey: absent, blank, and a key with spaces around it
Overrides == {Absent, Some(<<" ", " ">>), Some(<<" ", "k", " ">>)}
\* what clientStorage.getAsync('geminiApiKey') can resolve with: never written,
\* cleared, and a saved key (saveApiKey, lines 85-94, rewrites it between reads)
StoredKeys == {Absent, Some(<<>>), Some(<<"k">>)}
\* the ways callGemini fails: fetch rejects, a non-2xx status, no JSON found in
\* the reply, JSON.parse throws
FetchFailures == {"network", "http", "unparsable", "syntax"}
\* places the user can pan the canvas to
Centers == {[x |-> 0, y |-> 0], [x |-> 1000, y |-> 400]}

Styles == {"Regular", "Medium", "Semi Bold", "Bold"}

----------------------------------------------------------------------------
(* State *)

VARIABLES
    pc,           \* per request: where its generateDesign flow stands
    inbox,        \* per request: the generate-design message the UI posted
    req,          \* per request: params and locals of generateDesign until it returns
    settled,      \* per request: the outcome of the host promise the flow awaits
    stack,        \* per request: the activations below generateDesign
    msgs,         \* figma.ui.postMessage log, each message tagged with its request
    fetches,      \* the fetch calls made
    loadedFonts,  \* the module-level Set loadedFonts
    fontHost,     \* host side of figma.loadFontAsync: calls and rejections per style
    ensured,      \* number of ensureFont invocations per style
    scene,        \* the host scene graph: node id -> node, ids in creation order
    prov,         \* per scene node: the request and descriptor it was rendered from
    selection,    \* figma.currentPage.selection
    viewport,     \* figma.viewport.center
    notices,      \* figma.notify log
    call          \* the application of a pure helper under study, if any

vars == <<pc, inbox, req, settled, stack, msgs, fetches, loadedFonts, fontHost, ensured,
          scene, prov, selection, viewport, notices, call>>

flowVars == <<inbox, req, settled>>
sceneVars == <<scene, prov>>
fontVars == <<loadedFonts, fontHost, ensured>>
hostVars == <<selection, viewport, notices>>
sessionVars == <<pc, inbox, req, settled, stack, msgs, fetches, loadedFonts, fontHost,
                 ensured, scene, prov, selection, viewport, notices>>

\* generateDesign is not active: no params, no locals
NoLocals == [prompt |-> "", apiKeyOverride |-> Absent, apiKey |-> Absent,
             blueprint |-> Absent]

\* the plugin has started and no message has arrived
InitSession ==
    /\ pc = [r \in Reqs |-> "idle"]
    /\ inbox = [r \in Reqs |-> Absent]
    /\ req = [r \in Reqs |-> NoLocals]
    /\ settled = [r \in Reqs |-> Absent]
    /\ stack = [r \in Reqs |-> <<>>]
    /\ msgs = <<>>
    /\ fetches = <<>>
    /\ loadedFonts = {}
    /\ fontHost = [calls |-> [s \in Styles |-> 0], rejected |-> [s \in Styles |-> 0]]
    /\ ensured = [s \in Styles |-> 0]
    /\ scene = <<>>
    /\ prov = <<>>
    /\ selection = <<>>
    /\ viewport = [x |-> 0, y |-> 0]
    /\ notices = <<>>

Init == InitSession /\ call = <<>>

\* no continuation chain is running: the host may deliver an event
Idle == \A q \in Reqs : pc[q] # "running"
\* no generation flow is in flight
NoneInFlight == \A q \in Reqs : pc[q] \in {"idle", "done", "uncaught"}

Top(r) == stack[r][Len(stack[r])]
Push(r, rec) == [stack EXCEPT ![r] = Append(@, rec)]
Pop(r) == [stack EXCEPT ![r] = SubSeq(@, 1, Len(@) - 1)]
SetTop(r, rec) == [stack EXCEPT ![r][Len(stack[r])] = rec]
\* replace the top activation by rec and call callee
SetTopPush(r, rec, callee) ==
    [stack EXCEPT ![r] = Append([@ EXCEPT ![Len(@)] = rec], callee)]
Running(r, fn, at) ==
    /\ pc[r] = "running"
    /\ stack[r] # <<>>
    /\ Top(r).fn = fn
    /\ Top(r).pc = at

----------------------------------------------------------------------------
(* UI messages *)

Status(r, tone, state) ==
    [type |-> "status", tone |-> tone, state |-> state, error |-> "", req |-> r]
GenerationComplete(r) ==
    [type |-> "generation-complete", tone |-> "", state |-> "", error |-> "", req |-> r]
GenerationError(r, message) ==
    [type |-> "generation-error", tone |-> "", state |-> "", error |-> message, req |-> r]

\* notifyUI(text, tone, state)
notifyUI(r, tone, state) == msgs' = Append(msgs, Status(r, tone, state))

----------------------------------------------------------------------------
(* Host scene graph *)

\* figma.createFrame(): the host's fresh frame
NewFrameNode ==
    [type |-> "FRAME", name |-> "Frame", x |-> 0, y |-> 0, width |-> 100, height |-> 100,
     fills |-> <<[type |-> "SOLID", color |-> [r |-> 255, g |-> 255, b |-> 255]]>>,
     strokes |-> <<>>, cornerRadius |-> 0, layoutMode |-> "NONE", padding |-> 0,
     itemSpacing |-> 0, characters |-> "", fontSize |-> 12, fontName |-> "Regular",
     children |-> <<>>, parent |-> 0]

\* figma.createText(): the host's fresh text node
NewTextNode ==
    [type |-> "TEXT", name |-> "", x |-> 0, y |-> 0, width |-> 0, height |-> 0,
     fills |-> <<[type |-> "SOLID", color |-> [r |-> 0, g |-> 0, b |-> 0]]>>,
     strokes |-> <<>>, cornerRadius |-> 0, layoutMode |-> "NONE", padding |-> 0,
     itemSpacing |-> 0, characters |-> "", fontSize |-> 12, fontName |-> "Regular",
     children |-> <<>>, parent |-> 0]

\* parent.appendChild(child) on scene graph sc
AppendChildFirst(sc, parent, child) ==
    [sc EXCEPT ![parent].children = <<child>> \o @, ![child].parent = parent]
AppendChild(sc, parent, child) ==
    [sc EXCEPT ![parent].children = Append(@, child), ![child].parent = parent]

\* the centre of the bounding box of nodes ids: what scrollAndZoomIntoView centres
RECURSIVE MinOf(_, _)
MinOf(f, ids) ==
    IF Len(ids) = 1 THEN f[ids[1]]
    ELSE LET m == MinOf(f, Tail(ids)) IN IF f[ids[1]] < m THEN f[ids[1]] ELSE m
BoundsCenter(ids) ==
    LET left == [i \in 1..Len(scene) |-> scene[i].x]
        top == [i \in 1..Len(scene) |-> scene[i].y]
        negRight == [i \in 1..Len(scene) |-> 0 - (scene[i].x + scene[i].width)]
        negBottom == [i \in 1..Len(scene) |-> 0 - (scene[i].y + scene[i].height)]
    IN  [x |-> (MinOf(left, ids) - MinOf(negRight, ids)) \div 2,
         y |-> (MinOf(top, ids) - MinOf(negBottom, ids)) \div 2]

\* height / 2 (exact: every height of the inputs is even)
Half(h) == h \div 2

----------------------------------------------------------------------------
(* generateDesign, lines 96-129, and callGemini, lines 185-221 *)

\* !blueprint?.frames?.length
NoFramesAbsentOnly(blueprint) == blueprint.frames = Absent
NoFrames(blueprint) == ~TruthyLen(blueprint.frames)

\* params.apiKeyOverride?.trim()
OverrideUntrimmed(override) == override
OverrideKey(override) == IF override = Absent THEN Absent ELSE Some(TrimChars(override[1]))

\* lines 111-112 up to the await of fetch: buildPrompt, then callGemini's fetch
CallFetch(r, apiKey) == fetches' = Append(fetches, [req |-> r, apiKey |-> apiKey])

\* the UI posts a generate-design message, lines 67-73
UiSend(r, prompt, override) ==
    /\ pc[r] = "idle"
    /\ \A q \in Reqs : q < r => pc[q] # "idle"
    /\ Idle
    /\ pc' = [pc EXCEPT ![r] = "posted"]
    /\ inbox' = [inbox EXCEPT ![r] = Some([prompt |-> prompt, apiKey |-> override])]
    /\ UNCHANGED <<req, settled, stack, msgs, fetches, fontVars, sceneVars, hostVars, call>>

\* generateDesign returns or throws: its params and locals are gone
Exit(r, to) ==
    /\ pc' = [pc EXCEPT ![r] = to]
    /\ req' = [req EXCEPT ![r] = NoLocals]
    /\ settled' = [settled EXCEPT ![r] = Absent]
    /\ stack' = [stack EXCEPT ![r] = <<>>]

\* onmessage hands the message to generateDesign, which runs to its first
\* suspension: lines 97-104, and lines 111-112 and 186 when the override is a key
GenerateDesign(r) ==
    /\ pc[r] = "posted"
    /\ Idle
    /\ inbox' = [inbox EXCEPT ![r] = Absent]
    /\ LET prompt == inbox[r][1].prompt
           override == inbox[r][1].apiKey
       IN  IF prompt = ""
           THEN /\ notifyUI(r, "error", "idle")
                /\ Exit(r, "done")
                /\ UNCHANGED fetches
           ELSE /\ notifyUI(r, "info", "busy")
                /\ UNCHANGED <<settled, stack>>
                /\ IF TruthyChars(OverrideKey(override))
                   THEN /\ CallFetch(r, OverrideKey(override)[1])
                        /\ pc' = [pc EXCEPT ![r] = "awaitFetch"]
                        /\ req' = [req EXCEPT ![r].prompt = prompt,
                                              ![r].apiKeyOverride = override,
                                              ![r].apiKey = OverrideKey(override)]
                   ELSE /\ pc' = [pc EXCEPT ![r] = "awaitKey"]
                        /\ req' = [req EXCEPT ![r].prompt = prompt,
                                              ![r].apiKeyOverride = override]
                        /\ UNCHANGED fetches
    /\ UNCHANGED <<fontVars, sceneVars, hostVars, call>>

\* the host settles clientStorage.getAsync: with the stored key, or a failure
StorageSettles(r, outcome) ==
    /\ pc[r] = "awaitKey"
    /\ Idle
    /\ pc' = [pc EXCEPT ![r] = "keySettled"]
    /\ settled' = [settled EXCEPT ![r] = Some(outcome)]
    /\ UNCHANGED <<inbox, req, stack, msgs, fetches, fontVars, sceneVars, hostVars, call>>

\* getAsync resolved with the stored key, lines 104-108, and lines 111-112 and 186
KeyResolve(r) ==
    /\ pc[r] = "keySettled"
    /\ settled[r][1].ok
    /\ Idle
    /\ LET storedKey == settled[r][1].value
       IN  IF ~TruthyChars(storedKey)
           THEN /\ notifyUI(r, "error", "idle")
                /\ Exit(r, "done")
                /\ UNCHANGED fetches
           ELSE /\ CallFetch(r, storedKey[1])
                /\ pc' = [pc EXCEPT ![r] = "awaitFetch"]
                /\ req' = [req EXCEPT ![r].apiKey = storedKey]
                /\ settled' = [settled EXCEPT ![r] = Absent]
                /\ UNCHANGED <<stack, msgs>>
    /\ UNCHANGED <<inbox, fontVars, sceneVars, hostVars, call>>

\* getAsync rejected: line 104 is outside the try block, so the rejection leaves
\* generateDesign and the onmessage handler (line 68) uncaught
KeyReject(r) ==
    /\ pc[r] = "keySettled"
    /\ ~settled[r][1].ok
    /\ Idle
    /\ Exit(r, "uncaught")
    /\ UNCHANGED <<inbox, msgs, fetches, fontVars, sceneVars, hostVars, call>>

\* the catch block, lines 125-128: one generation-error, and the flow ends
Catch(r, message) ==
    /\ msgs' = Append(msgs, GenerationError(r, message))
    /\ Exit(r, "done")

\* the host settles callGemini's awaits (lines 186, 208, 212): with a reply that
\* parses to a blueprint, or one of the failures
FetchSettles(r, outcome) ==
    /\ pc[r] = "awaitFetch"
    /\ Idle
    /\ pc' = [pc EXCEPT ![r] = "fetchSettled"]
    /\ settled' = [settled EXCEPT ![r] = Some(outcome)]
    /\ UNCHANGED <<inbox, req, stack, msgs, fetches, fontVars, sceneVars, hostVars, call>>

\* callGemini throws (lines 186, 207-210, 216-218, 220)
FetchFail(r) ==
    /\ pc[r] = "fetchSettled"
    /\ ~settled[r][1].ok
    /\ Idle
    /\ Catch(r, settled[r][1].value)
    /\ UNCHANGED <<inbox, fetches, fontVars, sceneVars, hostVars, call>>

\* callGemini returns a blueprint: lines 114-119 up to renderBlueprint's line 241
\* (calledAt remembers the viewport centre at the call; the code keeps only its x)
FetchBlueprint(r) ==
    /\ pc[r] = "fetchSettled"
    /\ settled[r][1].ok
    /\ Idle
    /\ LET b == settled[r][1].value
       IN  IF NoFrames(b)
           THEN Catch(r, "empty")
           ELSE /\ notifyUI(r, "info", "busy")
                /\ pc' = [pc EXCEPT ![r] = "running"]
                /\ req' = [req EXCEPT ![r].blueprint = Some(b)]
                /\ settled' = [settled EXCEPT ![r] = Absent]
                /\ stack' = Push(r, [fn |-> "renderBlueprint", pc |-> "loop",
                                     plans |-> b.frames[1], i |-> 1, frames |-> <<>>,
                                     offsetX |-> viewport.x - 100, frame |-> 0,
                                     width |-> 0, calledAt |-> viewport])
    /\ UNCHANGED <<inbox, fetches, fontVars, sceneVars, hostVars, call>>

----------------------------------------------------------------------------
(* ensureFont, lines 298-304 *)

\* line 299: the cache key of a style
FontKeyFamily(style) == "Inter"
FontKey(style) == "Inter-" \o style

\* loadedFonts.has(key)
HasNever(key) == FALSE
Has(key) == key \in loadedFonts

\* lines 300-302: return when cached, else call the host and suspend
EnsureFont(r) ==
    /\ Running(r, "ensureFont", "start")
    /\ ensured' = [ensured EXCEPT ![Top(r).style] = @ + 1]
    /\ IF Has(FontKey(Top(r).style))
       THEN /\ stack' = Pop(r)
            /\ UNCHANGED <<pc, fontHost>>
       ELSE /\ fontHost' = [fontHost EXCEPT !.calls[Top(r).style] = @ + 1]
            /\ stack' = SetTop(r, [Top(r) EXCEPT !.pc = "awaitLoad"])
            /\ pc' = [pc EXCEPT ![r] = "awaitFont"]
    /\ UNCHANGED <<flowVars, msgs, fetches, loadedFonts, sceneVars, hostVars, call>>

\* figma.loadFontAsync resolves: line 303, and ensureFont returns
LoadFontResolve(r) ==
    /\ pc[r] = "awaitFont"
    /\ Idle
    /\ loadedFonts' = loadedFonts \cup {FontKey(Top(r).style)}
    /\ stack' = Pop(r)
    /\ pc' = [pc EXCEPT ![r] = "running"]
    /\ UNCHANGED <<flowVars, msgs, fetches, fontHost, ensured, sceneVars, hostVars, call>>

\* figma.loadFontAsync rejects: the failure unwinds to generateDesign's catch
LoadFontReject(r) ==
    /\ pc[r] = "awaitFont"
    /\ Idle
    /\ fontHost' = [fontHost EXCEPT !.rejected[Top(r).style] = @ + 1]
    /\ Catch(r, "fontload")
    /\ UNCHANGED <<inbox, fetches, loadedFonts, ensured, sceneVars, hostVars, call>>

EnsureFontCall(style) == [fn |-> "ensureFont", pc |-> "start", style |-> style]

----------------------------------------------------------------------------
(* createTextNode, lines 306-320 *)

\* line 307: the style whose load is awaited
EnsuredStyleMedium(node) == "Medium"
EnsuredStyle(node) ==
    IF node.fontWeight = Some("bold") THEN "Bold"
    ELSE IF node.fontWeight = Some("semi-bold") THEN "Semi Bold"
    ELSE "Medium"

\* line 316: the style assigned to text.fontName
AssignedStyle(node) ==
    IF node.fontWeight = Some("bold") THEN "Bold"
    ELSE IF node.fontWeight = Some("semi-bold") THEN "Semi Bold"
    ELSE "Medium"

\* line 312
Characters(node) ==
    (IF TruthyStr(node.title) THEN node.title[1] \o "\n" ELSE "")
        \o Coalesce(node.content, "")

\* line 311: the default box of a text node
TextBox(node) ==
    [width |-> Coalesce(node.width, 520), height |-> Coalesce(node.height, 120)]

\* line 307
CreateTextNodeFont(r) ==
    /\ Running(r, "createTextNode", "start")
    /\ stack' = SetTopPush(r, [Top(r) EXCEPT !.pc = "create"],
                           EnsureFontCall(EnsuredStyle(Top(r).node)))
    /\ UNCHANGED <<pc, flowVars, msgs, fetches, fontVars, sceneVars, hostVars, call>>

\* lines 308-319
CreateTextNodeCreate(r) ==
    /\ Running(r, "createTextNode", "create")
    /\ LET node == Top(r).node
           id == Len(scene) + 1
           text == [NewTextNode EXCEPT
                       !.x = Coalesce(node.x, 32),
                       !.y = Coalesce(node.y, 32),
                       !.width = TextBox(node).width,
                       !.height = TextBox(node).height,
                       !.characters = Characters(node),
                       !.fontSize = Coalesce(node.fontSize, 16),
                       !.fontName = AssignedStyle(node),
                       !.fills = SolidPaint(OrChars(node.color, HEX_TEXT))]
       IN  /\ scene' = AppendChild(Append(scene, text), Top(r).parent, id)
           /\ prov' = Append(prov, [Top(r).g EXCEPT !.req = r])
    /\ stack' = Pop(r)
    /\ UNCHANGED <<pc, flowVars, msgs, fetches, fontVars, hostVars, call>>

----------------------------------------------------------------------------
(* placeNodes, lines 276-296 *)

\* lines 279-280: the fallback grid
FallbackXRows(index, depth) == 40 + (index \div 2) * 340 + depth * 16
FallbackX(index, depth) == 40 + (index % 2) * 340 + depth * 16
FallbackY(index) == 120 + (index \div 2) * 220

\* lines 281-293: the switch on node.type
RendererForKnown(type) ==
    IF type \in {Some("panel"), Some("card"), Some("callout"), Some("list")}
    THEN "createBlockNode" ELSE "createTextNode"
RendererFor(type) ==
    IF type = Some("text") THEN "createTextNode" ELSE "createBlockNode"

PlaceNodesCall(parent, nodes, depth, level) ==
    [fn |-> "placeNodes", pc |-> "loop", parent |-> parent, nodes |-> nodes,
     depth |-> depth, index |-> 0, level |-> level]

\* provenance of a scene node: request, role, descriptor, sibling index, the
\* walker's depth argument and the number of containers between it and its frame
Prov(role, desc, idx, depth, level) ==
    [req |-> 0, role |-> role, desc |-> desc, idx |-> idx, depth |-> depth,
     level |-> level]

\* lines 278-293: the next sibling is handed to its renderer
PlaceNodesDispatch(r) ==
    /\ Running(r, "placeNodes", "loop")
    /\ Top(r).index < Len(Top(r).nodes)
    /\ LET t == Top(r)
           node == t.nodes[t.index + 1]
           x == Coalesce(node.x, FallbackX(t.index, t.depth))
           y == Coalesce(node.y, FallbackY(t.index))
       IN  stack' = SetTopPush(r, [t EXCEPT !.pc = "call"],
                [fn |-> RendererFor(node.type), pc |-> "start", parent |-> t.parent,
                 node |-> [node EXCEPT !.x = Some(x), !.y = Some(y)], container |-> 0,
                 g |-> Prov("node", node, t.index, t.depth, t.level)])
    /\ UNCHANGED <<pc, flowVars, msgs, fetches, fontVars, sceneVars, hostVars, call>>

\* line 294, after the awaited renderer returned
PlaceNodesNext(r) ==
    /\ Running(r, "placeNodes", "call")
    /\ stack' = SetTop(r, [Top(r) EXCEPT !.index = @ + 1, !.pc = "loop"])
    /\ UNCHANGED <<pc, flowVars, msgs, fetches, fontVars, sceneVars, hostVars, call>>

\* the loop is over: placeNodes returns
PlaceNodesReturn(r) ==
    /\ Running(r, "placeNodes", "loop")
    /\ Top(r).index >= Len(Top(r).nodes)
    /\ stack' = Pop(r)
    /\ UNCHANGED <<pc, flowVars, msgs, fetches, fontVars, sceneVars, hostVars, call>>

----------------------------------------------------------------------------
(* createBlockNode, lines 322-365 *)

\* line 340: a heading is synthesized
HasHeading(node) == TruthyStr(node.title) \/ TruthyStr(node.content)
\* line 349: a body is synthesized
HasBodyAlways(node) == TRUE
HasBody(node) == TruthyStr(node.content)

\* line 361: the depth handed to placeNodes for the children
ChildDepth(nodes) == IF (IF TruthyLen(nodes) THEN Len(nodes[1]) ELSE 0) > 0 THEN 1 ELSE 0

\* lines 323-338: the container is created and styled; it is not put into
\* parent before line 364
NewContainerAttached(sc, parent, container) ==
    [Append(sc, container) EXCEPT ![parent].children = Append(@, Len(sc) + 1),
                                  ![Len(sc) + 1].parent = parent]
NewContainer(sc, parent, container) == Append(sc, container)

\* lines 323-338, and line 341 when a heading is due
CreateBlockNodeFrame(r) ==
    /\ Running(r, "createBlockNode", "start")
    /\ LET t == Top(r)
           node == t.node
           id == Len(scene) + 1
           container == [NewFrameNode EXCEPT
               !.width = Coalesce(node.width, 520),
               !.height = Coalesce(node.height, 220),
               !.x = Coalesce(node.x, 32),
               !.y = Coalesce(node.y, 32),
               !.name = OrStr(node.title, "Block"),
               !.cornerRadius = Coalesce(node.cornerRadius, 14),
               !.layoutMode = "VERTICAL",
               !.padding = 16,
               !.itemSpacing = Coalesce(node.spacing, 12),
               !.fills = SolidPaint(OrChars(node.fill, HEX_FILL)),
               !.strokes = IF TruthyChars(node.stroke) THEN SolidPaint(node.stroke[1])
                                                       ELSE SolidPaint(HEX_STROKE)]
       IN  /\ scene' = NewContainer(scene, t.parent, container)
           /\ prov' = Append(prov, [t.g EXCEPT !.req = r])
           /\ stack' = IF HasHeading(node)
                       THEN SetTopPush(r, [t EXCEPT !.pc = "title", !.container = id],
                                       EnsureFontCall("Semi Bold"))
                       ELSE SetTop(r, [t EXCEPT !.pc = "children", !.container = id])
    /\ UNCHANGED <<pc, flowVars, msgs, fetches, fontVars, hostVars, call>>

\* lines 342-347, and line 350 when a body is due
CreateBlockNodeTitle(r) ==
    /\ Running(r, "createBlockNode", "title")
    /\ LET t == Top(r)
           node == t.node
           id == Len(scene) + 1
           title == [NewTextNode EXCEPT
               !.characters = OrStr(node.title, ""),
               !.fontName = "Semi Bold",
               !.fontSize = 15,
               !.fills = SolidPaint(OrChars(node.color, HEX_TEXT))]
       IN  /\ scene' = AppendChild(Append(scene, title), t.container, id)
           /\ prov' = Append(prov, [t.g EXCEPT !.req = r, !.role = "title"])
           /\ stack' = IF HasBody(node)
                       THEN SetTopPush(r, [t EXCEPT !.pc = "body"], EnsureFontCall("Medium"))
                       ELSE SetTop(r, [t EXCEPT !.pc = "children"])
    /\ UNCHANGED <<pc, flowVars, msgs, fetches, fontVars, hostVars, call>>

\* lines 351-356
CreateBlockNodeBody(r) ==
    /\ Running(r, "createBlockNode", "body")
    /\ LET t == Top(r)
           id == Len(scene) + 1
           body == [NewTextNode EXCEPT
               !.characters = Coalesce(t.node.content, ""),
               !.fontName = "Medium",
               !.fontSize = 13,
               !.fills = SolidPaint(HEX_BODY)]
       IN  /\ scene' = AppendChild(Append(scene, body), t.container, id)
           /\ prov' = Append(prov, [t.g EXCEPT !.req = r, !.role = "body"])
           /\ stack' = SetTop(r, [t EXCEPT !.pc = "children"])
    /\ UNCHANGED <<pc, flowVars, msgs, fetches, fontVars, hostVars, call>>

\* lines 360-362: the declared children are walked into the container
CreateBlockNodeChildren(r) ==
    /\ Running(r, "createBlockNode", "children")
    /\ LET t == Top(r)
       IN  stack' = IF TruthyLen(t.node.nodes)
                    THEN SetTopPush(r, [t EXCEPT !.pc = "append"],
                             PlaceNodesCall(t.container, t.node.nodes[1],
                                            ChildDepth(t.node.nodes), t.g.level + 1))
                    ELSE SetTop(r, [t EXCEPT !.pc = "append"])
    /\ UNCHANGED <<pc, flowVars, msgs, fetches, fontVars, sceneVars, hostVars, call>>

\* line 364
CreateBlockNodeAppend(r) ==
    /\ Running(r, "createBlockNode", "append")
    /\ scene' = AppendChild(scene, Top(r).parent, Top(r).container)
    /\ stack' = Pop(r)
    /\ UNCHANGED <<pc, flowVars, msgs, fetches, fontVars, prov, hostVars, call>>

----------------------------------------------------------------------------
(* renderBlueprint, lines 239-274, and the end of generateDesign, lines 121-124 *)

\* lines 254-263: the heading synthesized from a frame's description
HeadingNode(framePlan) ==
    [NodeBase EXCEPT !.type = Some("text"), !.title = framePlan.name,
                     !.content = framePlan.description, !.x = Some(40), !.y = Some(32),
                     !.fontSize = Some(18), !.fontWeight = Some("semi-bold"),
                     !.color = Some(HEX_HEADING)]

\* framePlan.nodes || []
FrameNodesNone(framePlan) == <<>>
FrameNodes(framePlan) == IF framePlan.nodes = Absent THEN <<>> ELSE framePlan.nodes[1]

\* lines 244-251, then line 254 or line 266
RenderBlueprintFrame(r) ==
    /\ Running(r, "renderBlueprint", "loop")
    /\ Top(r).i <= Len(Top(r).plans)
    /\ LET t == Top(r)
           framePlan == t.plans[t.i]
           id == Len(scene) + 1
           width == OrNum(framePlan.width, DEFAULT_FRAME_WIDTH)
           height == OrNum(framePlan.height, DEFAULT_FRAME_HEIGHT)
           frame == [NewFrameNode EXCEPT
               !.name = OrStr(framePlan.name, "Gemini Frame"),
               !.width = width,
               !.height = height,
               !.x = t.offsetX,
               !.y = viewport.y - Half(height),
               !.fills = SolidPaint(OrChars(framePlan.background, HEX_FRAME_BG))]
       IN  /\ scene' = Append(scene, frame)
           /\ prov' = Append(prov, [Prov("frame", framePlan, t.i - 1, 0, 0) EXCEPT !.req = r])
           /\ stack' = IF TruthyStr(framePlan.description)
                       THEN SetTopPush(r,
                                [t EXCEPT !.pc = "heading", !.frame = id, !.width = width],
                                [fn |-> "createTextNode", pc |-> "start", parent |-> id,
                                 node |-> HeadingNode(framePlan), container |-> 0,
                                 g |-> Prov("heading", HeadingNode(framePlan), 0, 0, 0)])
                       ELSE SetTopPush(r,
                                [t EXCEPT !.pc = "placed", !.frame = id, !.width = width],
                                PlaceNodesCall(id, FrameNodes(framePlan), 0, 0))
    /\ UNCHANGED <<pc, flowVars, msgs, fetches, fontVars, hostVars, call>>

\* line 266, after the heading was rendered
RenderBlueprintPlace(r) ==
    /\ Running(r, "renderBlueprint", "heading")
    /\ LET t == Top(r)
       IN  stack' = SetTopPush(r, [t EXCEPT !.pc = "placed"],
                        PlaceNodesCall(t.frame, FrameNodes(t.plans[t.i]), 0, 0))
    /\ UNCHANGED <<pc, flowVars, msgs, fetches, fontVars, sceneVars, hostVars, call>>

\* line 269: where the next frame starts
NextOffsetXNoWidth(offsetX, width) == offsetX + FRAME_GAP
NextOffsetX(offsetX, width) == offsetX + width + FRAME_GAP

\* lines 268-269
RenderBlueprintNext(r) ==
    /\ Running(r, "renderBlueprint", "placed")
    /\ LET t == Top(r)
       IN  stack' = SetTop(r, [t EXCEPT !.pc = "loop", !.frames = Append(@, t.frame),
                                        !.offsetX = NextOffsetX(@, t.width),
                                        !.i = @ + 1])
    /\ UNCHANGED <<pc, flowVars, msgs, fetches, fontVars, sceneVars, hostVars, call>>

\* lines 272-273, then generateDesign's lines 121-124
RenderBlueprintReturn(r) ==
    /\ Running(r, "renderBlueprint", "loop")
    /\ Top(r).i > Len(Top(r).plans)
    /\ notices' = Append(notices, Len(Top(r).frames))
    /\ selection' = Top(r).frames
    /\ viewport' = BoundsCenter(Top(r).frames)
    /\ msgs' = Append(msgs, GenerationComplete(r))
    /\ Exit(r, "done")
    /\ UNCHANGED <<inbox, fetches, fontVars, sceneVars, call>>

----------------------------------------------------------------------------
(* The user pans the canvas while a renderer is suspended on a font load *)

UserPan(c) ==
    /\ Idle
    /\ \E r \in Reqs : pc[r] = "awaitFont"
    /\ viewport # c
    /\ viewport' = c
    /\ UNCHANGED <<pc, flowVars, stack, msgs, fetches, fontVars, sceneVars,
                   selection, notices, call>>

----------------------------------------------------------------------------
(* Specifications *)

Start(r) == \E prompt \in Prompts, override \in Overrides : UiSend(r, prompt, override)

KeyOutcomes == {[ok |-> TRUE, value |-> k] : k \in StoredKeys}
                   \cup {[ok |-> FALSE, value |-> Absent]}
FetchOutcomes(replies) == {[ok |-> TRUE, value |-> b] : b \in replies}
                              \cup {[ok |-> FALSE, value |-> c] : c \in FetchFailures}

Step(r, replies) ==
    \/ GenerateDesign(r)
    \/ \E outcome \in KeyOutcomes : StorageSettles(r, outcome)
    \/ KeyResolve(r)
    \/ KeyReject(r)
    \/ \E outcome \in FetchOutcomes(replies) : FetchSettles(r, outcome)
    \/ FetchFail(r)
    \/ FetchBlueprint(r)
    \/ RenderBlueprintFrame(r)
    \/ RenderBlueprintPlace(r)
    \/ RenderBlueprintNext(r)
    \/ RenderBlueprintReturn(r)
    \/ PlaceNodesDispatch(r)
    \/ PlaceNodesNext(r)
    \/ PlaceNodesReturn(r)
    \/ CreateTextNodeFont(r)
    \/ CreateTextNodeCreate(r)
    \/ CreateBlockNodeFrame(r)
    \/ CreateBlockNodeTitle(r)
    \/ CreateBlockNodeBody(r)
    \/ CreateBlockNodeChildren(r)
    \/ CreateBlockNodeAppend(r)
    \/ EnsureFont(r)
    \/ LoadFontResolve(r)
    \/ LoadFontReject(r)

Pan == \E c \in Centers : UserPan(c)

\* generate-design messages may arrive while earlier flows are suspended
Next == (\E r \in Reqs : Start(r) \/ Step(r, OverlapBlueprints)) \/ Pan

Spec == Init /\ [][Next]_vars

\* the UI sends the next generate-design only after the previous flow ended
NextSerial == (\E r \in Reqs : (NoneInFlight /\ Start(r)) \/ Step(r, Blueprints)) \/ Pan

SpecSerial == Init /\ [][NextSerial]_vars

----------------------------------------------------------------------------
(* hexToRgb applied on its own *)

\* digits the colour strings are drawn from
ColourDigits == {"0", "5", "a", "f"}

\* 3-digit and 6-digit colour strings, bare and with a leading '#'
ShortColours == {<<a, b, c>> : a \in ColourDigits, b \in ColourDigits, c \in ColourDigits}
LongColours ==
    {<<a, a, b, b, c, c>> : a \in ColourDigits, b \in ColourDigits, c \in ColourDigits}
Colours ==
    (ShortColours \cup LongColours)
        \cup {<<"#">> \o ds : ds \in ShortColours \cup LongColours}

InitHex ==
    /\ InitSession
    /\ call \in {[fn |-> "hexToRgb", arg |-> hex, ret |-> <<>>] : hex \in Colours}

\* hexToRgb(hex) is evaluated and returns
HexToRgbCall ==
    /\ call.ret = <<>>
    /\ call' = [call EXCEPT !.ret = <<hexToRgb(call.arg)>>]
    /\ UNCHANGED sessionVars

SpecHex == InitHex /\ [][HexToRgbCall]_vars

----------------------------------------------------------------------------
(* extractJson, lines 223-237, applied on its own *)

\* A reply text is a sequence of tokens: the three backticks of a code fence
\* (written ~~~), the word json, the braces, a blank and a letter. A string
\* result is <<tokens>>, null is <<>>.
Tokens == {"~~~", "json", "{", "}", " ", "a"}

RECURSIVE TextsOfLen(_)
TextsOfLen(n) ==
    IF n = 0 THEN {<<>>}
    ELSE {Append(t, k) : t \in TextsOfLen(n - 1), k \in Tokens}
Texts == UNION {TextsOfLen(n) : n \in 0..MaxTextLen}

\* String.prototype.indexOf / lastIndexOf, 1-based; 0 when there is none
RECURSIVE IndexFrom(_, _, _)
IndexFrom(text, token, i) ==
    IF i > Len(text) THEN 0
    ELSE IF text[i] = token THEN i
    ELSE IndexFrom(text, token, i + 1)
RECURSIVE LastIndexFrom(_, _, _)
LastIndexFrom(text, token, i) ==
    IF i < 1 THEN 0
    ELSE IF text[i] = token THEN i
    ELSE LastIndexFrom(text, token, i - 1)

\* text.match of line 225: <<>> when nothing matches, else <<group 1>>: the
\* leftmost fence followed by json that has a fence after it, and the shortest
\* interior
RECURSIVE FenceMatchFrom(_, _)
FenceMatchFrom(text, i) ==
    IF i + 1 > Len(text) THEN <<>>
    ELSE IF text[i] = "~~~" /\ text[i + 1] = "json"
                            /\ IndexFrom(text, "~~~", i + 2) # 0
         THEN <<SubSeq(text, i + 2, IndexFrom(text, "~~~", i + 2) - 1)>>
         ELSE FenceMatchFrom(text, i + 1)
FenceMatch(text) == FenceMatchFrom(text, 1)

extractJson(text) ==
    IF text = <<>> THEN <<>>
    ELSE LET fenceMatch == FenceMatch(text)
             braceIndex == IndexFrom(text, "{", 1)
             lastBrace == LastIndexFrom(text, "}", Len(text))
         IN  IF fenceMatch # <<>> /\ fenceMatch[1] # <<>>
             THEN <<TrimChars(fenceMatch[1])>>
             ELSE IF braceIndex >= 1 /\ lastBrace > braceIndex
                  THEN <<SubSeq(text, braceIndex, lastBrace)>>
                  ELSE <<>>

InitExtract ==
    /\ InitSession
    /\ call \in {[fn |-> "extractJson", arg |-> text, ret |-> <<"pending">>] :
                     text \in Texts}

\* extractJson(text) is evaluated and returns
ExtractJsonCall ==
    /\ call.ret = <<"pending">>
    /\ call' = [call EXCEPT !.ret = <<"returned", extractJson(call.arg)>>]
    /\ UNCHANGED sessionVars

SpecExtract == InitExtract /\ [][ExtractJsonCall]_vars

----------------------------------------------------------------------------
(* Properties *)

NodeIds == 1..Len(scene)

\* the children of scene node p that render declared child descriptors
Kids(p) == SelectSeq(scene[p].children, LAMBDA c : prov[c].role = "node")

\* the descriptors declared under scene node p
Declared(p) ==
    IF prov[p].desc.nodes = <<>> THEN <<>> ELSE prov[p].desc.nodes[1]

\* generateDesign of request r went as far as creating scene nodes
Rendered(r) == \E i \in NodeIds : prov[i].req = r

Sent(r, type) == \E k \in 1..Len(msgs) : msgs[k].req = r /\ msgs[k].type = type

\* C1: when flows run one after another and no font load fails, the host's
\* loadFontAsync has been called exactly once for every style ensureFont was
\* asked for at least once, however often it was asked, and never for a style
\* it was not asked for.
C1_FontLoadedOncePerStyle ==
    \A s \in Styles :
        fontHost.rejected[s] = 0 =>
            fontHost.calls[s] = IF ensured[s] > 0 THEN 1 ELSE 0

\* three distinct styles were requested, one of them at least three times
C1_Witness ==
    /\ \A s \in Styles : fontHost.rejected[s] = 0
    /\ ensured["Medium"] >= 3
    /\ ensured["Semi Bold"] >= 2
    /\ ensured["Bold"] >= 1
    /\ fontHost.calls["Medium"] = 1
    /\ fontHost.calls["Semi Bold"] = 1
    /\ fontHost.calls["Bold"] = 1

\* C2: every step that creates a text primitive (a createTextNode text, a
\* synthesized title or body) finds the style it assigns to the primitive
\* already in the loaded-font set, so the load completed before the primitive
\* was created and before its characters and fontName were set.
C2_FontLoadedBeforeText ==
    [][\A i \in (Len(scene) + 1)..Len(scene') :
           scene'[i].type = "TEXT" =>
               ("Inter-" \o scene'[i].fontName) \in loadedFonts]_vars

\* a node text, a frame heading, a synthesized title and a synthesized body
\* exist, and texts of all three styles
C2_Witness ==
    /\ \A role \in {"node", "heading", "title", "body"} :
           \E i \in NodeIds : scene[i].type = "TEXT" /\ prov[i].role = role
    /\ \A style \in {"Medium", "Semi Bold", "Bold"} :
           \E i \in NodeIds : scene[i].type = "TEXT" /\ scene[i].fontName = style

\* C3: placeNodes renders siblings one at a time and in order. While a walk is
\* at sibling index k, exactly the first k descriptors have their scene nodes in
\* the parent (k + 1 once the awaited renderer has returned), and in every
\* parent, at every nesting level, the nodes of the declared children appear in
\* the child list in descriptor order.
C3_SequentialInOrder ==
    /\ \A r \in Reqs : \A n \in 1..Len(stack[r]) :
           stack[r][n].fn = "placeNodes" =>
               LET a == stack[r][n]
                   placed == Len(Kids(a.parent))
               IN  /\ a.pc = "loop" => placed = a.index
                   /\ a.pc = "call" =>
                          placed = IF n = Len(stack[r]) THEN a.index + 1 ELSE a.index
                   /\ \A j \in 1..placed : prov[Kids(a.parent)[j]].desc = a.nodes[j]
    /\ \A p \in NodeIds :
           /\ Len(Kids(p)) <= Len(Declared(p))
           /\ \A j \in 1..Len(Kids(p)) :
                  /\ prov[Kids(p)[j]].desc = Declared(p)[j]
                  /\ prov[Kids(p)[j]].idx = j - 1

\* a frame holds its five declared children, and a container nested in
\* another container holds its two
C3_Witness ==
    /\ \E p \in NodeIds : prov[p].role = "frame" /\ Len(Kids(p)) = 5
    /\ \E p \in NodeIds :
           prov[p].role = "node" /\ prov[p].level = 1 /\ Len(Kids(p)) = 2

\* C4: a descriptor at sibling index i walked at depth d is rendered at
\* x = 40 + (i mod 2) * 340 + 16 * d when it omits x and at
\* y = 120 + floor(i / 2) * 220 when it omits y, an explicit coordinate is used
\* as given, each coordinate on its own; five siblings without coordinates under
\* a frame land on (40,120), (380,120), (40,340), (380,340), (40,560).
C4_FallbackGrid ==
    /\ \A c \in NodeIds :
           prov[c].role = "node" =>
               /\ scene[c].x = IF prov[c].desc.x = <<>>
                               THEN 40 + (prov[c].idx % 2) * 340 + 16 * prov[c].depth
                               ELSE prov[c].desc.x[1]
               /\ scene[c].y = IF prov[c].desc.y = <<>>
                               THEN 120 + (prov[c].idx \div 2) * 220
                               ELSE prov[c].desc.y[1]
    /\ \A p \in NodeIds :
           (/\ prov[p].role = "frame"
            /\ Len(Kids(p)) = 5
            /\ \A j \in 1..5 : Declared(p)[j].x = <<>> /\ Declared(p)[j].y = <<>>)
           => [j \in 1..5 |-> <<scene[Kids(p)[j]].x, scene[Kids(p)[j]].y>>]
                  = << <<40, 120>>, <<380, 120>>, <<40, 340>>, <<380, 340>>, <<40, 560>> >>

\* the five-sibling frame is rendered, and so are a node with only x given, a
\* node with only y given and a node with both given
C4_Witness ==
    /\ \E p \in NodeIds :
           /\ prov[p].role = "frame"
           /\ Len(Kids(p)) = 5
           /\ \A j \in 1..5 : Declared(p)[j].x = <<>> /\ Declared(p)[j].y = <<>>
    /\ \E c \in NodeIds :
           prov[c].role = "node" /\ prov[c].desc.x # <<>> /\ prov[c].desc.y = <<>>
    /\ \E c \in NodeIds :
           prov[c].role = "node" /\ prov[c].desc.x = <<>> /\ prov[c].desc.y # <<>>
    /\ \E c \in NodeIds :
           prov[c].role = "node" /\ prov[c].desc.x # <<>> /\ prov[c].desc.y # <<>>

\* C5 (as stated): the walker's depth argument is the number of containers
\* between a descriptor and its frame, so a child k containers below the frame
\* that omits x is rendered at x = 40 + (index mod 2) * 340 + 16 * k.
C5_DepthIsNestingLevel ==
    \A c \in NodeIds :
        prov[c].role = "node" =>
            /\ prov[c].depth = prov[c].level
            /\ prov[c].desc.x = <<>> =>
                   scene[c].x = 40 + (prov[c].idx % 2) * 340 + 16 * prov[c].level

\* the roles of the children of scene node p, in child-list order
Roles(p) == [j \in 1..Len(scene[p].children) |-> prov[scene[p].children[j]].role]

IsContainer(c) == prov[c].role = "node" /\ scene[c].type = "FRAME"
\* createBlockNode has returned: the container is attached to its parent
Finished(c) == IsContainer(c) /\ scene[c].parent # 0

Present(a) == a # <<>> /\ a[1] # ""

DeclaredRoles(c) == [j \in 1..Len(Declared(c)) |-> "node"]

C7_NoFailureUncaught ==
    \A r \in Reqs :
        /\ pc[r] # "uncaught"
        /\ Cardinality({k \in 1..Len(msgs) :
                            msgs[k].req = r /\ msgs[k].type = "generation-error"}) <= 1

\* a string of blanks: what trim() empties
Blank(chars) == \A i \in 1..Len(chars) : chars[i] = " "
UsableOverride(o) == o # <<>> /\ ~Blank(o[1])
UsableStored(k) == k # <<>> /\ k[1] # <<>>

FetchedFor(r) == \E k \in 1..Len(fetches) : fetches[k].req = r

\* request r was turned down: an error status, and nothing else came of it
Aborted(r) ==
    /\ pc[r] = "done"
    /\ \E k \in 1..Len(msgs) :
           msgs[k].req = r /\ msgs[k].type = "status" /\ msgs[k].tone = "error"
    /\ ~FetchedFor(r)
    /\ ~Rendered(r)
    /\ ~Sent(r, "generation-complete")
    /\ ~Sent(r, "generation-error")

\* C8: a request with an empty prompt, and a request with a prompt for which the
\* override trims to nothing (or is absent) and the stored key is empty or
\* absent, ends with an error status as its last message, without a network
\* call, a scene node, a generation-complete or a generation-error; a network
\* call is made only for a request with a prompt and a usable key; and a
\* request that got an error status never gets any of the four afterwards.
C8_InputErrorAborts ==
    /\ [][\A r \in Reqs :
              /\ (\/ /\ pc[r] = "posted"
                     /\ pc'[r] # "posted"
                     /\ inbox[r][1].prompt = ""
                  \/ /\ pc[r] = "keySettled"
                     /\ pc'[r] # "keySettled"
                     /\ settled[r][1].ok
                     /\ ~UsableOverride(req[r].apiKeyOverride)
                     /\ ~UsableStored(settled[r][1].value))
                 => /\ Aborted(r)'
                    /\ msgs'[Len(msgs')] = [type |-> "status", tone |-> "error",
                                            state |-> "idle", error |-> "", req |-> r]
              /\ (Len(fetches') > Len(fetches) /\ fetches'[Len(fetches')].req = r)
                 => \/ /\ pc[r] = "posted"
                       /\ inbox[r][1].prompt # ""
                       /\ UsableOverride(inbox[r][1].apiKey)
                    \/ /\ pc[r] = "keySettled"
                       /\ req[r].prompt # ""
                       /\ settled[r][1].ok
                       /\ UsableStored(settled[r][1].value)]_vars
    /\ [](\A r \in Reqs :
              (\E k \in 1..Len(msgs) :
                   msgs[k].req = r /\ msgs[k].type = "status" /\ msgs[k].tone = "error")
              => Aborted(r))

\* one request was turned down for its empty prompt (no busy status), another
\* for its missing key (a busy status first)
C8_Witness ==
    \E r1, r2 \in Reqs :
        /\ Aborted(r1)
        /\ Aborted(r2)
        /\ ~\E k \in 1..Len(msgs) : msgs[k].req = r1 /\ msgs[k].state = "busy"
        /\ \E k \in 1..Len(msgs) : msgs[k].req = r2 /\ msgs[k].state = "busy"

\* the reply of request r parsed to a blueprint without frames
EmptyReply(r) ==
    /\ pc[r] = "fetchSettled"
    /\ settled[r][1].ok
    /\ (settled[r][1].value.frames = <<>> \/ settled[r][1].value.frames[1] = <<>>)

EmptyReported(r) ==
    \E k \in 1..Len(msgs) :
        msgs[k].req = r /\ msgs[k].type = "generation-error" /\ msgs[k].error = "empty"

\* C9: the step that takes a reply whose frames are empty or absent ends the
\* flow with a generation-error as its one message, creates no scene node and
\* leaves the selection, the viewport and the notices as they were; such a
\* request never has a scene node or a generation-complete.
C9_EmptyBlueprintIsError ==
    /\ [][\A r \in Reqs :
              (EmptyReply(r) /\ pc'[r] # pc[r])
              => /\ pc'[r] = "done"
                 /\ Len(msgs') = Len(msgs) + 1
                 /\ msgs'[Len(msgs')].type = "generation-error"
                 /\ msgs'[Len(msgs')].req = r
                 /\ scene' = scene
                 /\ selection' = selection
                 /\ viewport' = viewport
                 /\ notices' = notices]_vars
    /\ [](\A r \in Reqs :
              EmptyReported(r) =>
                  /\ pc[r] = "done"
                  /\ ~Rendered(r)
                  /\ ~Sent(r, "generation-complete"))

\* a request ended on a reply without frames after another request's render
\* had set the selection
C9_Witness ==
    /\ \E r \in Reqs : EmptyReported(r)
    /\ \E r \in Reqs : Sent(r, "generation-complete")
    /\ selection # <<>>

RGB(r, g, b) == <<[type |-> "SOLID", color |-> [r |-> r, g |-> g, b |-> b]]>>
Default(a, d) == IF a = <<>> THEN d ELSE a[1]

FontLoadFailed(r) ==
    \E k \in 1..Len(msgs) :
        msgs[k].req = r /\ msgs[k].type = "generation-error" /\ msgs[k].error = "fontload"

\* C10: whatever optional fields a rendered blueprint leaves out and whatever
\* the kinds of its nodes, a descriptor is rendered as a text exactly when its
\* kind is "text" and as a container otherwise, every absent field takes its
\* documented default, and a render that has ended ended with
\* generation-complete unless the host failed a font load.
C10_DefaultsAndFallbackRenderer ==
    /\ \A c \in NodeIds :
           LET d == prov[c].desc
               n == scene[c]
           IN  /\ prov[c].role = "node" =>
                      n.type = IF d.type = <<"text">> THEN "TEXT" ELSE "FRAME"
               /\ (prov[c].role = "node" /\ n.type = "TEXT") =>
                      /\ n.width = Default(d.width, 520)
                      /\ n.height = Default(d.height, 120)
                      /\ n.fontSize = Default(d.fontSize, 16)
                      /\ d.fontWeight = <<>> => n.fontName = "Medium"
                      /\ d.color = <<>> => n.fills = RGB(233, 237, 245)
                      /\ (d.title = <<>> /\ d.content = <<>>) => n.characters = ""
               /\ (prov[c].role = "node" /\ n.type = "FRAME") =>
                      /\ n.width = Default(d.width, 520)
                      /\ n.height = Default(d.height, 220)
                      /\ n.cornerRadius = Default(d.cornerRadius, 14)
                      /\ n.itemSpacing = Default(d.spacing, 12)
                      /\ d.title = <<>> => n.name = "Block"
                      /\ d.fill = <<>> => n.fills = RGB(17, 20, 27)
                      /\ d.stroke = <<>> => n.strokes = RGB(31, 38, 51)
                      /\ d.nodes = <<>> => Kids(c) = <<>>
               /\ prov[c].role = "frame" =>
                      /\ d.name = <<>> => n.name = "Gemini Frame"
                      /\ d.width = <<>> => n.width = 1440
                      /\ d.height = <<>> => n.height = 1024
                      /\ d.background = <<>> => n.fills = RGB(11, 13, 17)
                      /\ d.description = <<>> =>
                             \A j \in 1..Len(n.children) : prov[n.children[j]].role = "node"
                      /\ d.nodes = <<>> => Kids(c) = <<>>
    /\ \A r \in Reqs :
           (pc[r] = "done" /\ Rendered(r)) =>
               Sent(r, "generation-complete") \/ FontLoadFailed(r)

\* completed renders hold a frame with every optional field absent, a node of
\* an unknown kind, and a node with no field at all, its kind included
C10_Witness ==
    /\ \E c \in NodeIds :
           /\ prov[c].role = "frame"
           /\ \A f \in DOMAIN prov[c].desc : prov[c].desc[f] = <<>>
           /\ Sent(prov[c].req, "generation-complete")
    /\ \E c \in NodeIds :
           /\ prov[c].role = "node"
           /\ prov[c].desc.type = <<"chart">>
           /\ Sent(prov[c].req, "generation-complete")
    /\ \E c \in NodeIds :
           /\ prov[c].role = "node"
           /\ \A f \in DOMAIN prov[c].desc : prov[c].desc[f] = <<>>
           /\ scene[c].parent # 0

\* each digit written twice in place: d1 d2 d3 -> d1 d1 d2 d2 d3 d3
RECURSIVE DoubleDigits(_)
DoubleDigits(ds) ==
    IF ds = <<>> THEN <<>> ELSE <<Head(ds), Head(ds)>> \o DoubleDigits(Tail(ds))

\* the digits of a colour string, without its leading '#'
Digits(hex) == IF hex # <<>> /\ hex[1] = "#" THEN Tail(hex) ELSE hex
\* the same colour with every digit written twice
Doubled(hex) ==
    (IF hex # <<>> /\ hex[1] = "#" THEN <<"#">> ELSE <<>>) \o DoubleDigits(Digits(hex))

\* C11 (as stated): for a 3-digit colour d1 d2 d3, with or without '#',
\* hexToRgb returns what it returns for d1 d1 d2 d2 d3 d3, that is the triple
\* (17 * d1, 17 * d2, 17 * d3).
C11_ShortFormDoublesDigits ==
    (call # <<>> /\ call.ret # <<>> /\ Len(Digits(call.arg)) = 3) =>
        /\ call.ret[1] = hexToRgb(Doubled(call.arg))
        /\ call.ret[1] = [r |-> 17 * HexVal(Digits(call.arg)[1]),
                          g |-> 17 * HexVal(Digits(call.arg)[2]),
                          b |-> 17 * HexVal(Digits(call.arg)[3])]

\* the positions at which a fenced block starts: a fence, json, a later fence
FenceStarts(text) ==
    {i \in 1..(Len(text) - 1) :
        /\ text[i] = "~~~"
        /\ text[i + 1] = "json"
        /\ \E k \in (i + 2)..Len(text) : text[k] = "~~~"}
Least(S) == CHOOSE i \in S : \A j \in S : i <= j
Greatest(S) == CHOOSE i \in S : \A j \in S : j <= i
\* the interior of the first fenced block
FirstInterior(text) ==
    LET i == Least(FenceStarts(text))
        k == Least({k \in (i + 2)..Len(text) : text[k] = "~~~"})
    IN  SubSeq(text, i + 2, k - 1)
\* a text without blanks at either end
Trimmed(t) == t = <<>> \/ (t[1] # " " /\ t[Len(t)] # " ")
\* t with the blanks at both ends removed
TrimOf(t) ==
    IF \A i \in 1..Len(t) : t[i] = " " THEN <<>>
    ELSE SubSeq(t, Least({i \in 1..Len(t) : t[i] # " "}),
                   Greatest({i \in 1..Len(t) : t[i] # " "}))
Positions(text, token) == {i \in 1..Len(text) : text[i] = token}

\* C12 (as stated): extractJson returns the trimmed interior of the first
\* fenced block whenever the text has one; otherwise the text from the first
\* '{' through the last '}' when the latter comes after the former; otherwise
\* null.
C12_FenceThenBracesThenNull ==
    (call # <<>> /\ call.fn = "extractJson" /\ call.ret[1] = "returned") =>
        LET text == call.arg
            opens == Positions(text, "{")
            closes == Positions(text, "}")
        IN  call.ret[2] =
                IF FenceStarts(text) # {} THEN <<TrimOf(FirstInterior(text))>>
                ELSE IF opens # {} /\ closes # {} /\ Greatest(closes) > Least(opens)
                     THEN <<SubSeq(text, Least(opens), Greatest(closes))>>
                     ELSE <<>>

\* C13 (as stated): the scene mutations of two requests are never interleaved:
\* in creation order, the nodes of one request all come before or all come
\* after the nodes of the other, also when the second generate-design arrives
\* while the first flow is in flight.
C13_RendersNotInterleaved ==
    \A i, j, k \in NodeIds :
        (i < j /\ j < k /\ prov[i].req = prov[k].req) => prov[j].req = prov[i].req

\* C14 (as stated): whatever the interleaving of the generation flows in
\* flight, the host's font loader is asked for each style at most once in the
\* session (as long as no load of the style has failed).
C14_FontRequestedAtMostOnce ==
    \A s \in Styles : fontHost.rejected[s] = 0 => fontHost.calls[s] <= 1

\* the frames request r has created, in creation order
FramesOf(r) == SelectSeq([i \in NodeIds |-> i],
                         LAMBDA i : prov[i].req = r /\ prov[i].role = "frame")

CreatedBy(a) ==
    {a.frames[i] : i \in 1..Len(a.frames)} \cup (IF a.frame = 0 THEN {} ELSE {a.frame})

\* C16 (as stated): every frame a renderBlueprint call creates has
\* y = (viewport centre y when renderBlueprint was called) - height / 2, also
\* when the viewport centre moves while the renderer is suspended between frames.
C16_FramesCentredAtCallTime ==
    \A r \in Reqs :
        stack[r] # <<>> =>
            \A f \in CreatedBy(stack[r][1]) :
                scene[f].y = stack[r][1].calledAt.y - (scene[f].height \div 2)

\* the step posts generation-complete for request r
Completes(r) ==
    /\ Len(msgs') = Len(msgs) + 1
    /\ msgs'[Len(msgs')].type = "generation-complete"
    /\ msgs'[Len(msgs')].req = r

\* C17: when generation-complete is posted for a request, the render of its
\* blueprint is over: the request has created one frame per frame descriptor,
\* in descriptor order, every frame and container of the request holds all its
\* declared children and every container is attached, and the selection is the
\* list of those frames; once the message is out, no node of the request is
\* created or changed.
C17_CompleteAfterRender ==
    [][\A r \in Reqs :
           /\ Completes(r) =>
                  LET plans == req[r].blueprint[1].frames[1]
                      fs == FramesOf(r)
                  IN  /\ Len(fs) = Len(plans)
                      /\ \A i \in 1..Len(fs) : prov[fs[i]].desc = plans[i]
                      /\ \A p \in NodeIds :
                             (prov[p].req = r /\ scene[p].type = "FRAME") =>
                                 /\ Len(Kids(p)) = Len(Declared(p))
                                 /\ prov[p].role = "node" => scene[p].parent # 0
                      /\ selection' = fs
                      /\ scene' = scene
           /\ Sent(r, "generation-complete") =>
                  \A i \in 1..Len(scene') :
                      prov'[i].req = r => (i <= Len(scene) /\ scene'[i] = scene[i])]_vars

\* generation-complete is out for a request that rendered three frames, one of
\* them with nested content, and for a request that rendered nested containers
C17_Witness ==
    /\ \E r \in Reqs : Sent(r, "generation-complete") /\ Len(FramesOf(r)) = 3
    /\ \E p \in NodeIds :
           /\ Sent(prov[p].req, "generation-complete")
           /\ prov[p].role = "node"
           /\ prov[p].level = 1
           /\ Len(Kids(p)) = 2

\* the terminal messages posted for request r: an error status, a
\* generation-complete or a generation-error
Terminals(r) ==
    {k \in 1..Len(msgs) :
        /\ msgs[k].req = r
        /\ \/ msgs[k].type = "status" /\ msgs[k].tone = "error"
           \/ msgs[k].type = "generation-complete"
           \/ msgs[k].type = "generation-error"}

\* C18 (as stated): a request never gets more than one terminal message, and a
\* flow that has ended, all its awaited operations settled, has posted exactly
\* one: no flow ends with the UI left in the busy state.
C18_ExactlyOneTerminalOutcome ==
    \A r \in Reqs :
        /\ Cardinality(Terminals(r)) <= 1
        /\ pc[r] \in {"done", "uncaught"} => Cardinality(Terminals(r)) = 1

\* C19: a container that is in the child list of a frame or of another
\* container is complete: it holds its synthesized title and body and a node
\* for every declared child, in order, and so do the containers below it; a
\* container is in a child list exactly when it names that node as its parent.
\* This holds in every state, those left by a failed render included.
C19_AttachedOnlyWhenComplete ==
    /\ \A c \in NodeIds :
           (IsContainer(c) /\ scene[c].parent # 0) =>
               LET d == prov[c].desc
               IN  /\ Roles(c) =
                          (IF Present(d.title) \/ Present(d.content) THEN <<"title">>
                                                                     ELSE <<>>)
                              \o (IF Present(d.content) THEN <<"body">> ELSE <<>>)
                              \o DeclaredRoles(c)
                   /\ \A j \in 1..Len(Kids(c)) : prov[Kids(c)[j]].desc = Declared(c)[j]
    /\ \A p, c \in NodeIds :
           (\E j \in 1..Len(scene[p].children) : scene[p].children[j] = c)
               <=> scene[c].parent = p

\* a container holding two declared children is attached inside another
\* container, and a render that failed has left a container unattached
C19_Witness ==
    /\ \E c \in NodeIds :
           /\ IsContainer(c)
           /\ scene[c].parent # 0
           /\ prov[c].level = 1
           /\ Len(Kids(c)) = 2
    /\ \E c \in NodeIds :
           /\ IsContainer(c)
           /\ scene[c].parent = 0
           /\ pc[prov[c].req] = "done"
           /\ FontLoadFailed(prov[c].req)

\* the loads of style s the host has neither resolved nor rejected yet
PendingLoads(s) ==
    Cardinality({r \in Reqs : pc[r] = "awaitFont" /\ stack[r][Len(stack[r])].style = s})

\* C20: loadedFonts holds the key of a style only if a loadFontAsync call for
\* that style has resolved; the step in which a load is rejected leaves
\* loadedFonts as it was and ends the flow with a generation-error; an
\* ensureFont call for a style whose key is not in loadedFonts, after a failed
\* load as before any load, asks the host for it.
C20_CacheHoldsOnlySuccessfulLoads ==
    /\ [](/\ loadedFonts \subseteq {"Inter-" \o s : s \in Styles}
          /\ \A s \in Styles :
                 ("Inter-" \o s) \in loadedFonts =>
                     fontHost.calls[s] - fontHost.rejected[s] - PendingLoads(s) >= 1)
    /\ [][\A r \in Reqs :
              LET style == stack[r][Len(stack[r])].style
              IN  /\ (/\ pc[r] = "awaitFont"
                      /\ fontHost'.rejected[style] = fontHost.rejected[style] + 1)
                     => /\ loadedFonts' = loadedFonts
                        /\ pc'[r] = "done"
                        /\ msgs'[Len(msgs')].type = "generation-error"
                        /\ msgs'[Len(msgs')].req = r
                  /\ (/\ pc[r] = "running"
                      /\ stack[r][Len(stack[r])].fn = "ensureFont"
                      /\ ("Inter-" \o style) \notin loadedFonts
                      /\ stack'[r] # stack[r])
                     => /\ fontHost'.calls[style] = fontHost.calls[style] + 1
                        /\ pc'[r] = "awaitFont"]_vars

\* a load of Medium failed and left the cache without it; a later ensureFont
\* asked for it again, and that load succeeded
C20_Witness ==
    /\ fontHost.rejected["Medium"] = 1
    /\ fontHost.calls["Medium"] = 2
    /\ "Inter-Medium" \in loadedFonts
    /\ PendingLoads("Medium") = 0

====
